---- MODULE Spec2Model ----
(***************************************************************************)
(* A model of MemSurfer's triangle mesh (libsurfer/src/TriMesh.cpp and     *)
(* TriMesh_cgal.cpp): the connectivity builders of TriMesh and the         *)
(* periodic-domain operations of TriMeshPeriodic.                          *)
(*                                                                         *)
(* Vectors of the program are sequences; the program's 0-based index i is  *)
(* position i+1 of the sequence (operator At).  Face and vertex indices    *)
(* are kept 0-based, -1 is the across-edge sentinel.                       *)
(***************************************************************************)
EXTENDS Integers, Sequences, FiniteSets, TLC

\* ------------------------------------------------------------------ bounds
\* number of vertices of a connectivity mesh (mVertices.size())
NumVerts == 4
\* largest number of faces of a connectivity mesh
MaxFaces == 3
\* cap on the iterations the boundary loop may run past the end of bedges
MaxSpin == 2

VARIABLES
    mFaces,        \* face list: sequence of corner triples
    mVAdjFaces,    \* per vertex, the faces touching it
    mFAcrossEdge,  \* per face, per local edge, the face across it or -1
    bedges,        \* boundary edge list
    pc,            \* position of the running handler ("idle": none running)
    caller,        \* who called need_across_edge: "user" or "need_boundary"
    wk,            \* per face, the position of its iteration of the parallel loop
    bidx,          \* need_boundary: outer index of the reordering loop
    niter,         \* need_boundary: executions of the reordering loop's body
    oob,           \* need_boundary: an element past the end of bedges was read
    diag,          \* need_boundary: the chaining diagnostic was written to stderr
    bcollected,    \* need_boundary: bedges as collected, before reordering
    call,          \* the last handler called: its name, its argument, how it ended
    mDim,          \* dimensionality tag of the vertices
    mVertices,     \* vertex positions, three coordinates each
    mBox0,         \* periodic box: minimum corner
    mBox1,         \* periodic box: maximum corner
    bbox_valid,    \* the periodic box has been set
    dt,            \* the faces of the periodic triangulation (9-sheeted covering)
    fit,           \* delaunay: position of the face iterator
    fverts,        \* delaunay: the vertex handles of the face being classified
    duplicateHandles,         \* delaunay: pairs <<vertex handle, synthesized index>>
    mPeriodicFaces,           \* faces with one or two corners in the domain, as found
    mTrimmedFaces,            \* the same faces with the other corners remapped
    mDuplicateVerts_OrigIds,  \* duplicate-vertex records (orig id, offset, offset)
    mDuplicateVerts,          \* positions of the duplicate vertices
    runs,          \* delaunay: how many calls have reached the face loop
    iterated,      \* delaunay: faces the iterator has yielded, over all runs
    mVNeighbors,   \* per vertex, the vertices sharing a face with it
    mFields,       \* named per-vertex scalar fields (a map ordered by name)
    stream,        \* write_binary: the records written to the file
    mFaceNormals,  \* per face, the cross product of two of its edges
    mPointNormals, \* per vertex, the accumulated (then normalized) normal
    pointAreas,    \* need_pointareas: per vertex, the accumulated area
    cornerareas,   \* need_pointareas: per face, the areas of its three corners
    fw,            \* per face, the position of its iteration of a per-face loop
    reg,           \* per face, the value its iteration has loaded and not yet stored
    wb             \* write_binary: its locals counts, first and count

\* the state of the periodic reconstruction
dlVars == <<dt, fit, fverts, duplicateHandles, mPeriodicFaces, mTrimmedFaces,
            mDuplicateVerts_OrigIds, mDuplicateVerts, runs, iterated>>

\* the state of the periodic-domain operations
perVars == <<mDim, mVertices, mBox0, mBox1, bbox_valid, dlVars>>

\* the derived connectivity and the locals of its builders
connVars == <<mVAdjFaces, mFAcrossEdge, bedges, caller, wk, bidx, niter, oob, diag,
              bcollected>>

\* the neighbor lists, the fields, the normals, the written file and the
\* locals of their builders
fieldVars == <<mVNeighbors, mFields, stream, mFaceNormals, mPointNormals, pointAreas,
               cornerareas, fw, reg, wb>>

vars == <<mFaces, pc, call, connVars, perVars, fieldVars>>

\* ------------------------------------------------------------------ helpers
At(s, i) == s[i + 1]

Range(s) == {s[k] : k \in 1..Len(s)}

VertexIds == 0..(NumVerts - 1)

\* The faces meshes are built from.  The builders compare vertex indices for
\* equality only and treat the three corners alike, so of the rotations of a
\* face with three distinct corners one is kept (smallest index first, either
\* winding); the faces that repeat a corner are (0,0,1) and its rotations.
FaceSet ==
    {f \in VertexIds \X VertexIds \X VertexIds :
        \/ f[1] < f[2] /\ f[1] < f[3] /\ f[2] # f[3]
        \/ f \in {<<0, 0, 1>>, <<0, 1, 0>>, <<1, 0, 0>>}}

\* vertices are numbered in the order the faces first use them: the vertices
\* used by a face list are 0 .. m for some m (no index is skipped)
NoGap(s) ==
    LET used == UNION {{s[k][1], s[k][2], s[k][3]} : k \in 1..Len(s)}
    IN \A v \in used : \A u \in 0..v : u \in used

RECURSIVE SeqsUpTo(_, _)
SeqsUpTo(S, n) ==
    IF n = 0 THEN {<<>>}
    ELSE LET shorter == SeqsUpTo(S, n - 1)
         IN shorter \cup {t \in {Append(s, x) : s \in {t \in shorter : Len(t) = n - 1},
                                                    x \in S} : NoGap(t)}

NoAcross == <<-1, -1, -1>>

\* the largest value of size_t, which nbedges-1 wraps to when nbedges is 0
\* (the largest integer of the model checker stands for 2^64-1)
SizeMax == 2147483647

\* ------------------------------------------------------------------ meshes
\* the closed surface of a tetrahedron, wound outwards
Tetrahedron == << <<0, 1, 2>>, <<0, 3, 1>>, <<0, 2, 3>>, <<1, 3, 2>> >>

\* the face lists a mesh is constructed with
Meshes == SeqsUpTo(FaceSet, MaxFaces) \cup {Tetrahedron}

NumFaces == Len(mFaces)

FaceIds == 0..(NumFaces - 1)

\* corner j of face i: mFaces[i][j]
Corner(i, j) == At(At(mFaces, i), j)

\* the (face, corner) pairs in the order the loops of the builders visit them
CornerSeq == [k \in 1..(3 * NumFaces) |-> <<(k - 1) \div 3, (k - 1) % 3>>]

\* need_adjacentfaces' loop: mVAdjFaces[mFaces[i][j]].push_back(i)
ComputeAdjFaces ==
    [v \in 1..Len(mVertices) |->
        LET cs == SelectSeq(CornerSeq, LAMBDA c : Corner(c[1], c[2]) = v - 1)
        IN [k \in 1..Len(cs) |-> cs[k][1]]]

\* need_adjacentfaces: compute once, then cached
AdjFacesAfterNeed == IF mVAdjFaces # <<>> THEN mVAdjFaces ELSE ComputeAdjFaces

\* vidx: the first corner of face `other` that is v1, or -1
VIdx(other, v1) ==
    IF Corner(other, 0) = v1 THEN 0
    ELSE IF Corner(other, 1) = v1 THEN 1
    ELSE IF Corner(other, 2) = v1 THEN 2 ELSE -1

\* a slip in the test: the corner after ind is not compared with v2
AcrossMatchAnyWinding(i, other, v1, v2, a2) ==
    /\ other # i
    /\ other \in Range(a2)

\* the test the search loop of need_across_edge applies to a1[k1] = other
AcrossMatch(i, other, v1, v2, a2) ==
    /\ other # i
    /\ other \in Range(a2)
    /\ Corner(other, (((VIdx(other, v1) + 1) % 3) + 1) % 3) = v2

\* the search loop of need_across_edge for edge j of face i: the first face
\* of a1 that passes, with the local edge `ind` it is entered at; other = -1
\* when the loop ends without a match
FindAcross(i, j) ==
    LET v1 == Corner(i, (j + 1) % 3)
        v2 == Corner(i, (j + 2) % 3)
        a1 == At(mVAdjFaces, v1)
        a2 == At(mVAdjFaces, v2)
        hits == {k \in 1..Len(a1) : AcrossMatch(i, a1[k], v1, v2, a2)}
    IN IF hits = {} THEN [other |-> -1, ind |-> -1]
       ELSE LET k1 == CHOOSE k \in hits : \A m \in hits : k <= m
            IN [other |-> a1[k1], ind |-> (VIdx(a1[k1], v1) + 1) % 3]

\* mFAcrossEdge[i][j] = x
SetAcross(tab, i, j, x) == [tab EXCEPT ![i + 1][j + 1] = x]

\* ------------------------------------------------------------------ mesh shapes
\* the three edges of face i as unordered vertex pairs
EdgesOf(i) == {{Corner(i, j), Corner(i, (j + 1) % 3)} : j \in 0..2}

\* the three edges of face i as directed by its winding
DirEdgesOf(i) == {<<Corner(i, j), Corner(i, (j + 1) % 3)>> : j \in 0..2}

AllDirEdges == UNION {DirEdgesOf(i) : i \in FaceIds}

FacesWithEdge(e) == {i \in FaceIds : e \in EdgesOf(i)}

FacesWithDirEdge(d) == {i \in FaceIds : d \in DirEdgesOf(i)}

\* no edge is shared by more than two faces
AtMostTwoFacesPerEdge ==
    \A i \in FaceIds : \A e \in EdgesOf(i) : Cardinality(FacesWithEdge(e)) <= 2

\* every face has three distinct corners
NonDegenerate == \A i \in FaceIds : Cardinality(EdgesOf(i)) = 3

\* consistently wound manifold: no directed edge occurs in two faces
ConsistentlyWound ==
    /\ NonDegenerate
    /\ \A d \in AllDirEdges : Cardinality(FacesWithDirEdge(d)) = 1

\* closed manifold: every edge is shared by exactly two oppositely wound faces
ClosedManifold ==
    /\ NumFaces > 0
    /\ ConsistentlyWound
    /\ \A d \in AllDirEdges : <<d[2], d[1]>> \in AllDirEdges

\* the directed edges with no oppositely wound partner
BoundaryDirEdges == {d \in AllDirEdges : <<d[2], d[1]>> \notin AllDirEdges}

\* the boundary edges reached from vertex v in at most n steps along the winding
RECURSIVE LoopFrom(_, _)
LoopFrom(v, n) ==
    IF n = 0 THEN {}
    ELSE LET out == {d \in BoundaryDirEdges : d[1] = v}
         IN out \cup UNION {LoopFrom(d[2], n - 1) : d \in out}

\* consistently wound manifold whose boundary is one simple loop
SingleBoundaryLoop ==
    /\ ConsistentlyWound
    /\ BoundaryDirEdges # {}
    /\ \A d \in BoundaryDirEdges :
          /\ Cardinality({x \in BoundaryDirEdges : x[1] = d[1]}) = 1
          /\ Cardinality({x \in BoundaryDirEdges : x[2] = d[2]}) = 1
          /\ LoopFrom(d[1], Cardinality(BoundaryDirEdges)) = BoundaryDirEdges

\* ------------------------------------------------------------------ Init
Idle == pc = "idle"

InitMesh ==
    /\ mFaces \in Meshes
    /\ mVAdjFaces = <<>>
    /\ mFAcrossEdge = <<>>
    /\ bedges = <<>>

InitControl ==
    /\ pc = "idle"
    /\ caller = "user"
    /\ wk = <<>>
    /\ bidx = 0
    /\ niter = 0
    /\ oob = FALSE
    /\ diag = FALSE
    /\ bcollected = <<>>
    /\ call = [op |-> "none", arg |-> 0, out |-> "none"]

\* the periodic box is not valid until set_bbox has set it (TriMesh.hpp)
InitBox ==
    /\ bbox_valid = FALSE
    /\ mBox0 = <<0, 0, 0>>
    /\ mBox1 = <<0, 0, 0>>

\* no periodic reconstruction has run
InitPeriodicLists ==
    /\ fit = 0
    /\ fverts = <<>>
    /\ duplicateHandles = {}
    /\ runs = 0
    /\ iterated = 0
    /\ mPeriodicFaces = <<>>
    /\ mTrimmedFaces = <<>>
    /\ mDuplicateVerts_OrigIds = <<>>
    /\ mDuplicateVerts = <<>>

\* nothing derived has been computed, no field registered, nothing written
InitFields ==
    /\ mVNeighbors = <<>>
    /\ mFields = <<>>
    /\ stream = <<>>
    /\ mFaceNormals = <<>>
    /\ mPointNormals = <<>>
    /\ pointAreas = <<>>
    /\ cornerareas = <<>>
    /\ fw = <<>>
    /\ reg = <<>>
    /\ wb = <<>>

\* a mesh built from a face list over NumVerts vertices (the builders of the
\* connectivity read no vertex position)
Init ==
    /\ InitMesh
    /\ InitControl
    /\ mDim = 3
    /\ mVertices = [k \in 1..NumVerts |-> <<0, 0, 0>>]
    /\ dt = <<>>
    /\ InitBox
    /\ InitPeriodicLists
    /\ InitFields

\* ------------------------------------------------------------------ need_adjacentfaces
NeedAdjacentFaces ==
    /\ Idle
    /\ mVAdjFaces' = AdjFacesAfterNeed
    /\ call' = [op |-> "need_adjacentfaces", arg |-> 0,
                out |-> IF mVAdjFaces # <<>> THEN "cached" ELSE "computed"]
    /\ UNCHANGED <<perVars, fieldVars>>
    /\ UNCHANGED <<mFaces, mFAcrossEdge, bedges, pc, caller, wk, bidx, niter, oob,
                   diag, bcollected>>

\* ------------------------------------------------------------------ need_across_edge
\* need_across_edge returns at once: the table is there, or there are no vertices
AcrossReturnsEarly == mFAcrossEdge # <<>> \/ AdjFacesAfterNeed = <<>>

\* the prologue of need_across_edge up to the parallel loop: the table is
\* resized to nf rows of (-1,-1,-1) and one iteration per face starts
AcrossPrologue(who) ==
    /\ mVAdjFaces' = AdjFacesAfterNeed
    /\ IF AcrossReturnsEarly
       THEN /\ UNCHANGED <<mFAcrossEdge, wk, caller>>
            /\ pc' = IF who = "user" THEN "idle" ELSE "collect"
       ELSE /\ mFAcrossEdge' = [k \in 1..NumFaces |-> NoAcross]
            /\ wk' = [k \in 1..NumFaces |-> [j |-> 0, st |-> "check"]]
            /\ caller' = who
            /\ pc' = "across"

NeedAcrossEdge ==
    /\ Idle
    /\ AcrossPrologue("user")
    /\ call' = [op |-> "need_across_edge", arg |-> 0,
                out |-> IF AcrossReturnsEarly THEN "cached" ELSE "running"]
    /\ UNCHANGED <<perVars, fieldVars>>
    /\ UNCHANGED <<mFaces, bedges, bidx, niter, oob, diag, bcollected>>

\* iteration i, edge j: the test of mFAcrossEdge[i][j] and the search loop
WorkerCheck(i) ==
    /\ pc = "across"
    /\ At(wk, i).st = "check"
    /\ At(wk, i).j < 3
    /\ LET j == At(wk, i).j
       IN wk' = [wk EXCEPT ![i + 1] =
                    IF At(At(mFAcrossEdge, i), j) # -1 \/ FindAcross(i, j).other = -1
                    THEN [j |-> j + 1, st |-> "check"]
                    ELSE [j |-> j, st |-> "w1"]]
    /\ UNCHANGED <<perVars, fieldVars>>
    /\ UNCHANGED <<mFaces, mVAdjFaces, mFAcrossEdge, bedges, pc, caller, bidx, niter,
                   oob, diag, bcollected, call>>

\* a slip in the first store: mFAcrossEdge[i][j] = i
WorkerWriteOwnSelf(i) ==
    /\ pc = "across"
    /\ At(wk, i).st = "w1"
    /\ LET j == At(wk, i).j
       IN /\ mFAcrossEdge' = SetAcross(mFAcrossEdge, i, j, i)
          /\ wk' = [wk EXCEPT ![i + 1] = [j |-> j, st |-> "w2"]]
    /\ UNCHANGED <<perVars, fieldVars>>
    /\ UNCHANGED <<mFaces, mVAdjFaces, bedges, pc, caller, bidx, niter, oob, diag,
                   bcollected, call>>

\* iteration i, edge j: mFAcrossEdge[i][j] = other
WorkerWriteOwn(i) ==
    /\ pc = "across"
    /\ At(wk, i).st = "w1"
    /\ LET j == At(wk, i).j
       IN /\ mFAcrossEdge' = SetAcross(mFAcrossEdge, i, j, FindAcross(i, j).other)
          /\ wk' = [wk EXCEPT ![i + 1] = [j |-> j, st |-> "w2"]]
    /\ UNCHANGED <<perVars, fieldVars>>
    /\ UNCHANGED <<mFaces, mVAdjFaces, bedges, pc, caller, bidx, niter, oob, diag,
                   bcollected, call>>

\* a slip in the second store: mFAcrossEdge[other][ind] = other
WorkerWriteOtherSelf(i) ==
    /\ pc = "across"
    /\ At(wk, i).st = "w2"
    /\ LET j == At(wk, i).j
           r == FindAcross(i, j)
       IN /\ mFAcrossEdge' = SetAcross(mFAcrossEdge, r.other, r.ind, r.other)
          /\ wk' = [wk EXCEPT ![i + 1] = [j |-> j + 1, st |-> "check"]]
    /\ UNCHANGED <<perVars, fieldVars>>
    /\ UNCHANGED <<mFaces, mVAdjFaces, bedges, pc, caller, bidx, niter, oob, diag,
                   bcollected, call>>

\* iteration i, edge j: mFAcrossEdge[other][ind] = i
WorkerWriteOther(i) ==
    /\ pc = "across"
    /\ At(wk, i).st = "w2"
    /\ LET j == At(wk, i).j
           r == FindAcross(i, j)
       IN /\ mFAcrossEdge' = SetAcross(mFAcrossEdge, r.other, r.ind, i)
          /\ wk' = [wk EXCEPT ![i + 1] = [j |-> j + 1, st |-> "check"]]
    /\ UNCHANGED <<perVars, fieldVars>>
    /\ UNCHANGED <<mFaces, mVAdjFaces, bedges, pc, caller, bidx, niter, oob, diag,
                   bcollected, call>>

\* the parallel loop has ended: need_across_edge returns
AcrossReturn ==
    /\ pc = "across"
    /\ \A i \in FaceIds : At(wk, i).j = 3
    /\ wk' = <<>>
    /\ pc' = IF caller = "user" THEN "idle" ELSE "collect"
    /\ call' = IF caller = "user"
               THEN [op |-> "need_across_edge", arg |-> 0, out |-> "computed"]
               ELSE call
    /\ UNCHANGED caller
    /\ UNCHANGED <<perVars, fieldVars>>
    /\ UNCHANGED <<mFaces, mVAdjFaces, mFAcrossEdge, bedges, bidx, niter, oob, diag,
                   bcollected>>

\* ------------------------------------------------------------------ need_boundary
\* Edge(mFaces[i][(j+1)%3], mFaces[i][(j+2)%3]) of every (i, j) whose
\* across-edge entry is -1, in the order of the two collecting loops
CollectBoundary ==
    LET cs == SelectSeq(CornerSeq, LAMBDA c : At(At(mFAcrossEdge, c[1]), c[2]) = -1)
    IN [k \in 1..Len(cs) |->
            <<Corner(cs[k][1], (cs[k][2] + 1) % 3), Corner(cs[k][1], (cs[k][2] + 2) % 3)>>]

\* nbedges - 1 in size_t
LoopBound(nbedges) == IF nbedges = 0 THEN SizeMax ELSE nbedges - 1

\* a slip in the inner loop's test: the end vertex of edge jidx is compared
FindNextByEnd(b, k) ==
    LET hits == {jidx \in (k + 1)..(Len(b) - 1) : At(At(b, jidx), 1) = At(At(b, k), 1)}
    IN IF hits = {} THEN Len(b) ELSE CHOOSE jidx \in hits : \A m \in hits : jidx <= m

\* the inner loop: the first jidx in bidx+1 .. nbedges-1 with
\* bedges[jidx][0] == bedges[bidx][1], or nbedges when there is none
FindNext(b, k) ==
    LET hits == {jidx \in (k + 1)..(Len(b) - 1) : At(At(b, jidx), 0) = At(At(b, k), 1)}
    IN IF hits = {} THEN Len(b) ELSE CHOOSE jidx \in hits : \A m \in hits : jidx <= m

\* a slip in the swap: the entry at y is copied and the entry at x is lost
SwapOverwrite(b, x, y) == [b EXCEPT ![x + 1] = At(b, y)]

\* std::swap(b[x], b[y])
Swap(b, x, y) == [b EXCEPT ![x + 1] = At(b, y), ![y + 1] = At(b, x)]

\* need_boundary is called: a non-empty bedges is returned as it is; otherwise
\* need_across_edge runs first
NeedBoundary ==
    /\ Idle
    /\ IF bedges # <<>>
       THEN /\ call' = [op |-> "need_boundary", arg |-> 0, out |-> "cached"]
            /\ UNCHANGED <<mVAdjFaces, mFAcrossEdge, pc, caller, wk, bidx, niter, oob,
                           diag, bcollected>>
       ELSE /\ AcrossPrologue("need_boundary")
            /\ bidx' = 0
            /\ niter' = 0
            /\ oob' = FALSE
            /\ diag' = FALSE
            /\ bcollected' = <<>>
            /\ call' = [op |-> "need_boundary", arg |-> 0, out |-> "running"]
    /\ UNCHANGED <<perVars, fieldVars>>
    /\ UNCHANGED <<mFaces, bedges>>

\* the two collecting loops
BoundaryCollect ==
    /\ pc = "collect"
    /\ bedges' = CollectBoundary
    /\ bcollected' = CollectBoundary
    /\ pc' = "chain"
    /\ UNCHANGED <<perVars, fieldVars>>
    /\ UNCHANGED <<mFaces, mVAdjFaces, mFAcrossEdge, caller, wk, bidx, niter, oob, diag,
                   call>>

\* one execution of the body of the reordering loop, all its reads inside bedges
ChainStep ==
    /\ pc = "chain"
    /\ bidx < LoopBound(Len(bedges))
    /\ Len(bedges) > 0
    /\ niter' = niter + 1
    /\ LET jidx == FindNext(bedges, bidx)
       IN IF jidx < Len(bedges)
          THEN /\ bedges' = Swap(bedges, bidx + 1, jidx)
               /\ bidx' = bidx + 1
               /\ UNCHANGED <<pc, diag>>
          ELSE IF At(At(bedges, bidx), 1) = At(At(bedges, 0), 0)
          THEN /\ bidx' = bidx + 1
               /\ UNCHANGED <<bedges, pc, diag>>
          ELSE /\ diag' = TRUE
               /\ pc' = "break"
               /\ UNCHANGED <<bedges, bidx>>
    /\ UNCHANGED <<perVars, fieldVars>>
    /\ UNCHANGED <<mFaces, mVAdjFaces, mFAcrossEdge, caller, wk, oob, bcollected, call>>

\* one execution of the body when bedges is empty: bedges[bidx] and bedges[0]
\* do not exist, and what the two reads yield is not defined: equal values
\* (continue), different values (diagnostic and break), or a fault
ChainStepPastEnd ==
    /\ pc = "chain"
    /\ bidx < LoopBound(Len(bedges))
    /\ Len(bedges) = 0
    /\ niter' = niter + 1
    /\ oob' = TRUE
    /\ \/ /\ bidx < MaxSpin
          /\ bidx' = bidx + 1
          /\ UNCHANGED <<pc, diag>>
       \/ /\ diag' = TRUE
          /\ pc' = "break"
          /\ UNCHANGED bidx
       \/ /\ pc' = "fault"
          /\ UNCHANGED <<bidx, diag>>
    /\ UNCHANGED <<perVars, fieldVars>>
    /\ UNCHANGED <<mFaces, mVAdjFaces, mFAcrossEdge, bedges, caller, wk, bcollected, call>>

\* the loop has ended or was left by break: need_boundary returns bedges
BoundaryReturn ==
    /\ \/ pc = "break"
       \/ pc = "chain" /\ ~(bidx < LoopBound(Len(bedges)))
    /\ pc' = "idle"
    /\ call' = [op |-> "need_boundary", arg |-> 0, out |-> "computed"]
    /\ UNCHANGED <<perVars, fieldVars>>
    /\ UNCHANGED <<mFaces, mVAdjFaces, mFAcrossEdge, bedges, caller, wk, bidx, niter, oob,
                   diag, bcollected>>

\* ------------------------------------------------------------------ specification
Next ==
    \/ NeedAdjacentFaces
    \/ NeedAcrossEdge
    \/ \E i \in FaceIds : WorkerCheck(i)
    \/ \E i \in FaceIds : WorkerWriteOwn(i)
    \/ \E i \in FaceIds : WorkerWriteOther(i)
    \/ AcrossReturn
    \/ NeedBoundary
    \/ BoundaryCollect
    \/ ChainStep
    \/ ChainStepPastEnd
    \/ BoundaryReturn

Spec == Init /\ [][Next]_vars

\* ------------------------------------------------------------------ periodic box
\* largest count n passed to set_bbox
MaxBoxArgs == 7
\* largest dim passed to wrap_vertices
MaxWrapDim == 4
\* number of vertices of a mesh whose vertices are wrapped
NumBoxVerts == 1

\* the arrays of numbers passed to set_bbox: read as n = dim or n = 2*dim
\* numbers they give boxes of extent 0, 1 and 2 along an axis
BoxArrays == {<<2, 2, 2, 4, 4, 4>>, <<0, 0, 0, 2, 2, 2>>, <<0, 1, 1, 2, 3, 3>>}

\* vertex positions of a wrapped mesh; the third coordinate of a 2D vertex is 0
Points(dim) ==
    IF dim = 2
    THEN {<<-1, 1, 0>>, <<4, -1, 0>>, <<2, 4, 0>>, <<1, 2, 0>>}
    ELSE {<<-1, 1, 2>>, <<4, -1, 1>>, <<2, 4, -1>>, <<1, 2, 4>>}

\* a slip in the accepted counts: two numbers for any dimensionality
SetBboxAcceptsTwo(n) == n = 2 \/ n = 2 * mDim

\* the counts set_bbox accepts: the four branches of its if-chain
SetBboxAccepts(n) ==
    \/ n = 2 /\ mDim = 2
    \/ n = 3 /\ mDim = 3
    \/ n = 4 /\ mDim = 2
    \/ n = 6 /\ mDim = 3

\* mBox0 as the accepting branch sets it
Box0After(a, n) ==
    IF n = 2 \/ n = 3 THEN <<0, 0, 0>>
    ELSE IF n = 4 THEN <<a[1], a[2], 0>>
    ELSE <<a[1], a[2], a[3]>>

\* mBox1 as the accepting branch sets it
Box1After(a, n) ==
    IF n = 2 THEN <<a[1], a[2], 0>>
    ELSE IF n = 3 THEN <<a[1], a[2], a[3]>>
    ELSE IF n = 4 THEN <<a[3], a[4], 0>>
    ELSE <<a[4], a[5], a[6]>>

\* set_bbox(_, n)
SetBbox(a, n) ==
    /\ Idle
    /\ IF SetBboxAccepts(n)
       THEN /\ mBox0' = Box0After(a, n)
            /\ mBox1' = Box1After(a, n)
            /\ bbox_valid' = TRUE
            /\ call' = [op |-> "set_bbox", arg |-> n, out |-> "ok"]
       ELSE /\ call' = [op |-> "set_bbox", arg |-> n, out |-> "invalid_argument"]
            /\ UNCHANGED <<mBox0, mBox1, bbox_valid>>
    /\ UNCHANGED <<mFaces, pc, connVars, fieldVars, mDim, mVertices, dlVars>>

\* a slip in the second test: > for >=
WrapCoordStrict(x, lo, hi, w) ==
    LET x1 == IF x < lo THEN x + w ELSE x
    IN IF x1 > hi THEN x1 - w ELSE x1

\* the two tests wrap_vertices applies to one coordinate, in their order
WrapCoord(x, lo, hi, w) ==
    LET x1 == IF x < lo THEN x + w ELSE x
    IN IF x1 >= hi THEN x1 - w ELSE x1

\* boxw = mBox1 - mBox0
BoxW == [d \in 1..3 |-> mBox1[d] - mBox0[d]]

\* the vertices after the wrapping loops over i and d < dim
WrappedVertices(dim) ==
    [i \in 1..Len(mVertices) |->
        [d \in 1..3 |->
            IF d - 1 < dim
            THEN WrapCoord(mVertices[i][d], mBox0[d], mBox1[d], BoxW[d])
            ELSE mVertices[i][d]]]

\* a slip in the guards: the test of bbox_valid is missing
WrapFailsNoBoxTest(dim) == dim < 1 \/ dim > mDim

\* the two guards of wrap_vertices: either throws std::logic_error
WrapFails(dim) == dim < 1 \/ dim > mDim \/ ~bbox_valid

\* wrap_vertices(dim)
WrapVertices(dim) ==
    /\ Idle
    /\ IF WrapFails(dim)
       THEN /\ call' = [op |-> "wrap_vertices", arg |-> dim, out |-> "logic_error"]
            /\ UNCHANGED mVertices
       ELSE /\ mVertices' = WrappedVertices(dim)
            /\ call' = [op |-> "wrap_vertices", arg |-> dim, out |-> "ok"]
    /\ UNCHANGED <<mFaces, pc, connVars, fieldVars, mDim, mBox0, mBox1, bbox_valid, dlVars>>

\* a periodic mesh of NumBoxVerts vertices in 2D or 3D, no box set, no faces
InitWrapMesh ==
    /\ mDim \in {2, 3}
    /\ mVertices \in [1..NumBoxVerts -> Points(mDim)]
    /\ mFaces = <<>>
    /\ mVAdjFaces = <<>>
    /\ mFAcrossEdge = <<>>
    /\ bedges = <<>>
    /\ dt = <<>>

InitBoxSpec == InitWrapMesh /\ InitControl /\ InitBox /\ InitPeriodicLists /\ InitFields

NextBox ==
    \/ \E a \in BoxArrays : \E n \in 0..MaxBoxArgs : SetBbox(a, n)
    \/ \E dim \in 0..MaxWrapDim : WrapVertices(dim)

SpecBox == InitBoxSpec /\ [][NextBox]_vars

\* ------------------------------------------------------------------ periodic reconstruction
\* largest number of faces the face iterator yields, over all runs
MaxDtFaces == 2
\* largest number of delaunay calls that reach the face loop
MaxRuns == 2

\* periodic offsets of the corners in the 9-sheeted covering (each in 0..2)
RawOffsets == {<<0, 0>>, <<1, 0>>, <<2, 2>>}

\* a vertex handle of the covering: the copy of vertex id in the sheet at
\* offset o; info() and periodic_point() read the parts back
Handle(id, o) == <<id, o[1], o[2]>>
Info(h) == h[1]

\* off[0] == 0 && off[1] == 0
InDomain(h) == h[2] = 0 /\ h[3] = 0

\* the faces a triangulation of three points may hold, three handles each:
\* copies of the three vertices, or two copies of vertex 0 and one of vertex 1
DtFaces ==
    {<<Handle(0, a), Handle(1, b), Handle(2, c)>> :
        a \in {<<0, 0>>, <<1, 0>>}, b \in RawOffsets, c \in {<<0, 0>>, <<2, 2>>}}
    \cup {<<Handle(0, <<0, 0>>), Handle(0, <<1, 0>>), Handle(1, c)>> :
        c \in {<<0, 0>>, <<2, 2>>}}

\* the face lists dt may hold: at most n faces, no face twice
DtOutputs(n) ==
    UNION {{d \in [1..k -> DtFaces] : \A x, y \in 1..k : x # y => d[x] # d[y]} :
              k \in 0..n}

\* the dim wrap_vertices() is called with: the default argument is declared
\* outside the sources, so every value around mDim is followed
DefaultWrapDims == 0..3

\* the boxes and vertex lists of the reconstructed meshes
\* (the array gives the boxes [0,1]x[0,1] and [1,3]x[1,2])
PeriodicBoxArrays == {<<1, 1, 3, 2, 0, 0>>}
PeriodicBoxCounts == {2, 4, 5}
PeriodicVertexLists == { << <<-1, 2, 0>>, <<3, 1, 0>>, <<1, 1, 0>> >> }

\* const size_t nOrigVerts = mVertices.size()
nOrigVerts == Len(mVertices)

\* num_orig_verts: the corners of the face with offset (0,0)
NumOrigVerts(f) == Cardinality({vid \in 0..2 : InDomain(At(f, vid))})

\* Face face(fverts[0]->info(), fverts[1]->info(), fverts[2]->info())
FaceInfos(f) == <<Info(f[1]), Info(f[2]), Info(f[3])>>

\* a slip in the classification: two corners in the domain count as inside
IsInsideTwo(n) == n >= 2

\* num_orig_verts == 3
IsInside(n) == n = 3

\* a slip in the normalisation: the raw offset is kept
NormOffsetRaw(o) == o

\* off == 2 ? -1 : int(off)
NormOffset(o) == IF o = 2 THEN -1 ELSE o

\* dupMap(origId, off1, off2)
DupMap(h) == <<Info(h), NormOffset(h[2]), NormOffset(h[3])>>

\* a slip in the lookup: the handle is never found
HandleKnownNever(h, dh) == FALSE

\* duplicateHandles.find(vh) != duplicateHandles.end()
HandleKnown(h, dh) == \E p \in dh : p[1] = h

\* duplicateHandles[vh]
HandleIndex(h, dh) == (CHOOSE p \in dh : p[1] = h)[2]

\* duplicateHandles[vh] = idx
HandleSet(h, idx, dh) == {p \in dh : p[1] # h} \cup {<<h, idx>>}

\* a slip in the synthesized index: one too far
NewIndexPastEnd(recs) == Len(recs) + nOrigVerts

\* mDuplicateVerts_OrigIds.size() + nOrigVerts - 1, after the push_back
NewIndex(recs) == Len(recs) + nOrigVerts - 1

\* the unwrapping loop over the corners vid..2 of a periodic face f
RECURSIVE Unwrap(_, _, _, _, _)
Unwrap(vid, f, face, recs, dh) ==
    IF vid = 3 THEN [face |-> face, recs |-> recs, dh |-> dh]
    ELSE LET h == At(f, vid)
         IN IF InDomain(h) THEN Unwrap(vid + 1, f, face, recs, dh)
            ELSE LET known == HandleKnown(h, dh)
                     recs1 == IF known THEN recs ELSE Append(recs, DupMap(h))
                     dh1 == IF known THEN dh ELSE HandleSet(h, NewIndex(recs1), dh)
                     face1 == [face EXCEPT ![vid + 1] = HandleIndex(h, dh1)]
                 IN Unwrap(vid + 1, f, face1, recs1, dh1)

\* create_duplicate_vertices: the positions it leaves in mDuplicateVerts
CreateDuplicateVertices ==
    LET norig == Len(mVertices)
        ndups == Len(mDuplicateVerts_OrigIds)
    IN IF norig = 0 \/ ndups = 0 \/ ~bbox_valid THEN mDuplicateVerts
       ELSE [i \in 1..ndups |->
                LET dupMap == mDuplicateVerts_OrigIds[i]
                    orig == At(mVertices, dupMap[1])
                IN <<orig[1] + dupMap[2] * BoxW[1],
                     orig[2] + dupMap[3] * BoxW[2],
                     orig[3]>>]

\* delaunay() up to the face loop: the test of mDim, wrap_vertices(), the
\* triangulation, mFaces.clear() and the fresh map of duplicate handles
DelaunayBegin ==
    /\ Idle
    /\ IF mDim # 2
       THEN /\ call' = [op |-> "delaunay", arg |-> 0, out |-> "invalid_argument"]
            /\ UNCHANGED <<mFaces, pc, mVertices, dlVars>>
       ELSE \E dim \in DefaultWrapDims :
               IF WrapFails(dim)
               THEN /\ call' = [op |-> "delaunay", arg |-> 0, out |-> "logic_error"]
                    /\ UNCHANGED <<mFaces, pc, mVertices, dlVars>>
               ELSE /\ runs < MaxRuns
                    /\ mVertices' = WrappedVertices(dim)
                    /\ dt' \in DtOutputs(MaxDtFaces - iterated)
                    /\ mFaces' = <<>>
                    /\ duplicateHandles' = {}
                    /\ fverts' = <<>>
                    /\ fit' = 0
                    /\ runs' = runs + 1
                    /\ pc' = "faces"
                    /\ call' = [op |-> "delaunay", arg |-> 0, out |-> "running"]
                    /\ UNCHANGED <<mPeriodicFaces, mTrimmedFaces,
                                   mDuplicateVerts_OrigIds, mDuplicateVerts, iterated>>
    /\ UNCHANGED <<connVars, fieldVars, mDim, mBox0, mBox1, bbox_valid>>

\* one pass of the loop over the finite faces of dt
ProcessFace ==
    /\ pc = "faces"
    /\ fit < Len(dt)
    /\ LET f == At(dt, fit)
           n == NumOrigVerts(f)
           r == Unwrap(0, f, FaceInfos(f), mDuplicateVerts_OrigIds, duplicateHandles)
       IN /\ fverts' = f
          /\ IF n = 0
             THEN UNCHANGED <<mFaces, mPeriodicFaces, mTrimmedFaces,
                              mDuplicateVerts_OrigIds, duplicateHandles>>
             ELSE IF IsInside(n)
             THEN /\ mFaces' = Append(mFaces, FaceInfos(f))
                  /\ UNCHANGED <<mPeriodicFaces, mTrimmedFaces,
                                 mDuplicateVerts_OrigIds, duplicateHandles>>
             ELSE /\ mPeriodicFaces' = Append(mPeriodicFaces, FaceInfos(f))
                  /\ mTrimmedFaces' = Append(mTrimmedFaces, r.face)
                  /\ mDuplicateVerts_OrigIds' = r.recs
                  /\ duplicateHandles' = r.dh
                  /\ UNCHANGED mFaces
    /\ fit' = fit + 1
    /\ iterated' = iterated + 1
    /\ UNCHANGED <<pc, call, connVars, fieldVars, mDim, mVertices, mBox0, mBox1, bbox_valid,
                   dt, mDuplicateVerts, runs>>

\* the end of the face loop: create_duplicate_vertices() and the return
DelaunayEnd ==
    /\ pc = "faces"
    /\ fit = Len(dt)
    /\ mDuplicateVerts' = CreateDuplicateVertices
    /\ pc' = "idle"
    /\ call' = [op |-> "delaunay", arg |-> 0, out |-> "ok"]
    /\ UNCHANGED <<mFaces, connVars, fieldVars, mDim, mVertices, mBox0, mBox1, bbox_valid,
                   dt, fit, fverts, duplicateHandles, mPeriodicFaces, mTrimmedFaces,
                   mDuplicateVerts_OrigIds, runs, iterated>>

\* a periodic mesh of three vertices, with or without a face, no box set
InitPeriodicMesh ==
    /\ mDim \in {2, 3}
    /\ mVertices \in PeriodicVertexLists
    /\ mFaces \in {<<>>, << <<0, 1, 2>> >>}
    /\ mVAdjFaces = <<>>
    /\ mFAcrossEdge = <<>>
    /\ bedges = <<>>
    /\ dt = <<>>

InitPeriodic == InitPeriodicMesh /\ InitControl /\ InitBox /\ InitPeriodicLists /\ InitFields

NextPeriodic ==
    \/ \E a \in PeriodicBoxArrays : \E n \in PeriodicBoxCounts : SetBbox(a, n)
    \/ DelaunayBegin
    \/ ProcessFace
    \/ DelaunayEnd

SpecPeriodic == InitPeriodic /\ [][NextPeriodic]_vars

\* ------------------------------------------------------------------ claims
\* need_across_edge has run to its end and left a table
AcrossDone == pc # "across" /\ mFAcrossEdge # <<>>

\* if face i's edge j maps to face k, some edge of face k maps back to i
TableSymmetric ==
    \A i \in FaceIds : \A j \in 0..2 :
        LET k == At(At(mFAcrossEdge, i), j)
        IN k # -1 => \E j2 \in 0..2 : At(At(mFAcrossEdge, k), j2) = i

\* C1 as stated: after need_across_edge completes on any mesh whose faces
\* reference valid vertices, also one where an edge is shared by more than two
\* faces, the across-edge table is symmetric.
C1_SymmetricOnAnyMesh == AcrossDone => TableSymmetric

\* C1 amended: after need_across_edge completes on a mesh in which no edge is
\* shared by more than two faces, the across-edge table is symmetric: an entry
\* k at edge j of face i is matched by an entry i at some edge of face k.
C1_SymmetricOnManifold == (AcrossDone /\ AtMostTwoFacesPerEdge) => TableSymmetric

\* need_across_edge returned on a mesh with a shared edge and no edge in more
\* than two faces
C1_Witness ==
    /\ pc = "idle"
    /\ call = [op |-> "need_across_edge", arg |-> 0, out |-> "computed"]
    /\ AtMostTwoFacesPerEdge
    /\ \E i \in FaceIds : \E j \in 0..2 : At(At(mFAcrossEdge, i), j) # -1

\* C2 as stated: need_boundary on a closed manifold mesh returns an empty
\* boundary edge list, and its reordering loop performs no iteration and
\* reads no element of the empty list.
C2_NoIterationOnClosed ==
    (call.op = "need_boundary" /\ ClosedManifold)
        => (bedges = <<>> /\ niter = 0 /\ ~oob)

\* the boundary edge list is one closed cycle
ClosedCycle(b) ==
    /\ \A k \in 0..(Len(b) - 2) : At(At(b, k), 1) = At(At(b, k + 1), 0)
    /\ At(At(b, Len(b) - 1), 1) = At(At(b, 0), 0)

\* C3: for a consistently wound manifold mesh with exactly one boundary loop
\* of n edges, need_boundary returns exactly those n edges, each oriented as
\* in its face's winding, ordered as one closed cycle (the end of edge i is
\* the start of edge i+1, the end of the last is the start of the first), and
\* emits no chaining diagnostic.
C3_SingleLoopChained ==
    (pc = "idle" /\ call.op = "need_boundary" /\ SingleBoundaryLoop)
        => /\ Len(bedges) = Cardinality(BoundaryDirEdges)
           /\ Range(bedges) = BoundaryDirEdges
           /\ ClosedCycle(bedges)
           /\ ~diag
           /\ ~oob

\* need_boundary returned a loop of four edges that it had to reorder
C3_Witness ==
    /\ pc = "idle"
    /\ call = [op |-> "need_boundary", arg |-> 0, out |-> "computed"]
    /\ Len(bedges) = 4
    /\ bedges # bcollected
    /\ SingleBoundaryLoop

\* the step is one pass of delaunay's face loop over a face with k of its
\* corners in the domain, 1 <= k <= 2
PeriodicFaceStep ==
    /\ ProcessFace
    /\ NumOrigVerts(At(dt, fit)) \in {1, 2}

\* the records of the duplicate vertices are pairwise different
KeysUnique ==
    \A i, j \in 1..Len(mDuplicateVerts_OrigIds) :
        i # j => mDuplicateVerts_OrigIds[i] # mDuplicateVerts_OrigIds[j]

\* every handle met so far stands for the record of its own key
HandlesReuseRecords ==
    \A p \in duplicateHandles :
        /\ p[2] - nOrigVerts \in 0..(Len(mDuplicateVerts_OrigIds) - 1)
        /\ At(mDuplicateVerts_OrigIds, p[2] - nOrigVerts) = DupMap(p[1])

\* C4: after one run of periodic reconstruction on a freshly constructed
\* periodic mesh every duplicate-vertex key (original vertex id, normalized
\* offset pair) appears at most once in the record list, and a corner whose
\* key was already recorded gets the synthesized index of the existing record
\* instead of a new record.
C4_KeysUniqueAfterOneRun == runs = 1 => (KeysUnique /\ HandlesReuseRecords)

\* the first run ended with two trimmed faces that share a duplicate vertex
C4_Witness ==
    /\ Idle
    /\ runs = 1
    /\ call.op = "delaunay" /\ call.out = "ok"
    /\ Len(mTrimmedFaces) = 2
    /\ Len(mDuplicateVerts_OrigIds) >= 2
    /\ \E c1, c2 \in 1..3 :
          /\ mTrimmedFaces[1][c1] >= nOrigVerts
          /\ mTrimmedFaces[1][c1] = mTrimmedFaces[2][c2]

\* every index of a kept face is below original_count + duplicate_count
KeptIndicesInRange ==
    \A f \in Range(mFaces) \cup Range(mTrimmedFaces) : \A c \in 1..3 :
        f[c] \in 0..(nOrigVerts + Len(mDuplicateVerts_OrigIds) - 1)

\* C5: after periodic reconstruction every face in the kept sets (mFaces and
\* mTrimmedFaces) references only vertex indices in [0, original_count +
\* duplicate_count), duplicate_count being the length of the record list; in
\* a trimmed face an in-domain corner keeps its index, which is below
\* original_count, and a remapped corner has the index original_count +
\* position of its record in the record list.
C5_KeptIndicesInRange ==
    /\ []KeptIndicesInRange
    /\ [][PeriodicFaceStep =>
            LET f == At(dt, fit)
                t == At(mTrimmedFaces', Len(mTrimmedFaces))
            IN \A vid \in 0..2 :
                  LET h == At(f, vid)
                      x == At(t, vid)
                  IN IF InDomain(h)
                     THEN x = Info(h) /\ x < nOrigVerts
                     ELSE /\ x - nOrigVerts \in 0..(Len(mDuplicateVerts_OrigIds') - 1)
                          /\ At(mDuplicateVerts_OrigIds', x - nOrigVerts) = DupMap(h)]_vars

\* a run ended with a face kept as it was and a trimmed face with two
\* remapped corners
C5_Witness ==
    /\ Idle
    /\ call.op = "delaunay" /\ call.out = "ok"
    /\ Len(mFaces) = 1
    /\ \E k \in 1..Len(mTrimmedFaces) :
          Cardinality({c \in 1..3 : mTrimmedFaces[k][c] >= nOrigVerts}) = 2

\* C6: periodic reconstruction classifies each triangulated face by its
\* number of corners with offset (0,0): with zero the face is added to no
\* list; with three it is appended unchanged to mFaces only; with one or two
\* it is appended unchanged to mPeriodicFaces and exactly one remapped copy
\* is appended to mTrimmedFaces, so that the two lists always have equal
\* length and agree at every in-domain corner.
C6_Classification ==
    /\ [](Len(mPeriodicFaces) = Len(mTrimmedFaces))
    /\ [][ProcessFace =>
            LET f == At(dt, fit)
                n == NumOrigVerts(f)
            IN /\ n = 0 => UNCHANGED <<mFaces, mPeriodicFaces, mTrimmedFaces>>
               /\ n = 3 => /\ mFaces' = Append(mFaces, FaceInfos(f))
                           /\ UNCHANGED <<mPeriodicFaces, mTrimmedFaces>>
               /\ n \in {1, 2} =>
                    /\ mPeriodicFaces' = Append(mPeriodicFaces, FaceInfos(f))
                    /\ Len(mTrimmedFaces') = Len(mTrimmedFaces) + 1
                    /\ SubSeq(mTrimmedFaces', 1, Len(mTrimmedFaces)) = mTrimmedFaces
                    /\ \A vid \in 0..2 :
                          InDomain(At(f, vid)) =>
                              At(At(mTrimmedFaces', Len(mTrimmedFaces)), vid)
                                  = At(FaceInfos(f), vid)
                    /\ UNCHANGED mFaces]_vars

\* the loop has classified a face with two corners in the domain, after a
\* face it had kept as it was
C6_Witness ==
    /\ pc = "faces"
    /\ fit = 2
    /\ NumOrigVerts(fverts) = 2
    /\ Len(mFaces) = 1
    /\ Len(mPeriodicFaces) = 1
    /\ Len(mTrimmedFaces) = 1

\* delaunay has returned normally
DelaunayDone == Idle /\ call.op = "delaunay" /\ call.out = "ok"

\* the only periodic face of the triangulation has one corner out of the
\* domain, at offset (+1,0), and the box is [0,1]x[0,1]
CrossesRightEdge ==
    /\ runs = 1
    /\ mBox0 = <<0, 0, 0>>
    /\ mBox1 = <<1, 1, 0>>
    /\ \E k \in 1..Len(dt) :
          /\ NumOrigVerts(dt[k]) = 2
          /\ \E c \in 1..3 : dt[k][c][2] = 1 /\ dt[k][c][3] = 0
          /\ \A k2 \in 1..Len(dt) : k2 # k => NumOrigVerts(dt[k2]) \in {0, 3}

\* C7: for every duplicate-vertex record (orig, o0, o1), raw offset 2 being
\* normalized to -1 so that o0 and o1 are in {-1,0,1} and not both 0, the
\* duplicate vertex at the same list position is at orig.x + o0*(box1.x -
\* box0.x) on axis 0 and orig.y + o1*(box1.y - box0.y) on axis 1, the third
\* coordinate copied; a single periodic face crossing the right edge of the
\* box [0,1]x[0,1] yields exactly one duplicate, at offset (+1,0), positioned
\* at the original plus (1,0).
C7_DuplicatePositions ==
    DelaunayDone =>
        /\ Len(mDuplicateVerts) = Len(mDuplicateVerts_OrigIds)
        /\ \A i \in 1..Len(mDuplicateVerts_OrigIds) :
              LET rec == mDuplicateVerts_OrigIds[i]
                  orig == At(mVertices, rec[1])
              IN /\ rec[2] \in {-1, 0, 1}
                 /\ rec[3] \in {-1, 0, 1}
                 /\ ~(rec[2] = 0 /\ rec[3] = 0)
                 /\ mDuplicateVerts[i] = <<orig[1] + rec[2] * (mBox1[1] - mBox0[1]),
                                           orig[2] + rec[3] * (mBox1[2] - mBox0[2]),
                                           orig[3]>>
        /\ CrossesRightEdge =>
              /\ Len(mDuplicateVerts_OrigIds) = 1
              /\ mDuplicateVerts_OrigIds[1][2] = 1
              /\ mDuplicateVerts_OrigIds[1][3] = 0
              /\ LET orig == At(mVertices, mDuplicateVerts_OrigIds[1][1])
                 IN mDuplicateVerts[1] = <<orig[1] + 1, orig[2], orig[3]>>

\* the first run met one periodic face, crossing the right edge of [0,1]x[0,1],
\* and left one duplicate vertex
C7_Witness ==
    /\ DelaunayDone
    /\ CrossesRightEdge
    /\ Len(mDuplicateVerts) = 1

\* the step is a call set_bbox(_, n)
SetBboxStep(n) ==
    /\ call'.op = "set_bbox"
    /\ call'.arg = n
    /\ \E a \in BoxArrays : SetBbox(a, n)

\* the outcome of a set_bbox(_, n) step that accepts exactly the counts in ok
SetBboxOutcome(n, ok) ==
    /\ ok => call'.out = "ok" /\ bbox_valid'
    /\ ~ok => /\ call'.out = "invalid_argument"
              /\ UNCHANGED <<bbox_valid, mBox0, mBox1>>

\* C8 as stated: for a mesh of dimensionality dim in {2,3}, set_bbox(values, n)
\* succeeds and marks the box valid exactly when n = 2 or n = 2*dim; for every
\* other n it fails with invalid_argument and does not mark the box valid.
C8_AcceptsTwoOrTwiceDim ==
    [][\A n \in 0..MaxBoxArgs :
          (SetBboxStep(n) /\ mDim \in {2, 3})
              => SetBboxOutcome(n, n = 2 \/ n = 2 * mDim)]_vars

\* C8 amended: for a mesh of dimensionality dim in {2,3}, set_bbox(values, n)
\* succeeds and marks the box valid exactly when n = dim (box minimum at the
\* origin, maximum taken from the values) or n = 2*dim (explicit corners); for
\* every other n it fails with invalid_argument and leaves the box and its
\* validity as they were.
C8_AcceptsDimOrTwiceDim ==
    [][\A n \in 0..MaxBoxArgs :
          (SetBboxStep(n) /\ mDim \in {2, 3})
              => /\ SetBboxOutcome(n, n = mDim \/ n = 2 * mDim)
                 /\ (n = mDim => mBox0' = <<0, 0, 0>>)]_vars

\* a 3D mesh accepted three numbers
C8_Witness ==
    /\ mDim = 3
    /\ call = [op |-> "set_bbox", arg |-> 3, out |-> "ok"]
    /\ bbox_valid
    /\ mBox0 = <<0, 0, 0>>

\* the step is a call wrap_vertices(dim)
WrapStep(dim) ==
    /\ call'.op = "wrap_vertices"
    /\ call'.arg = dim
    /\ WrapVertices(dim)

\* C9: wrap_vertices(dim) fails with a logic error whenever dim is 0, dim
\* exceeds the mesh's dimensionality, or no successful set_bbox call has
\* preceded it (the box is valid only from a successful set_bbox on); in
\* each failing case no vertex coordinate is modified.
C9_WrapFailsUnmodified ==
    /\ ~bbox_valid
    /\ [][/\ bbox_valid' => (bbox_valid \/ (call'.op = "set_bbox" /\ call'.out = "ok"))
          /\ \A dim \in 0..MaxWrapDim :
                (WrapStep(dim) /\ (dim = 0 \/ dim > mDim \/ ~bbox_valid))
                    => (call'.out = "logic_error" /\ mVertices' = mVertices)]_vars

\* wrap_vertices failed for the missing box alone: its dim was acceptable
C9_Witness ==
    /\ call.op = "wrap_vertices"
    /\ call.arg \in 1..mDim
    /\ call.out = "logic_error"
    /\ ~bbox_valid

\* C10: after a successful wrap_vertices(dim) with a box of positive extent
\* w on axis d < dim, a coordinate x that started in [box0 - w, box1 + w) ends
\* in [box0, box1) and equals x + w if x < box0, x - w if x >= box1, and x
\* otherwise; coordinates on axes d >= dim are unchanged.
C10_WrapIntoBox ==
    [][\A dim \in 0..MaxWrapDim :
          (WrapStep(dim) /\ call'.out = "ok")
              => \A i \in 1..Len(mVertices) : \A d \in 1..3 :
                    LET x == mVertices[i][d]
                        y == mVertices'[i][d]
                        lo == mBox0[d]
                        hi == mBox1[d]
                        w == hi - lo
                    IN /\ (d - 1 < dim /\ w > 0 /\ lo - w <= x /\ x < hi + w)
                            => /\ lo <= y /\ y < hi
                               /\ y = (IF x < lo THEN x + w
                                       ELSE IF x >= hi THEN x - w ELSE x)
                       /\ d - 1 >= dim => y = x]_vars

\* wrap_vertices(2) moved the 2D vertex (-1,1,0) to (1,1,0) in the box [0,2)x[0,2)
C10_Witness ==
    /\ call = [op |-> "wrap_vertices", arg |-> 2, out |-> "ok"]
    /\ mBox0 = <<0, 0, 0>>
    /\ mBox1 = <<2, 2, 0>>
    /\ At(mVertices, 0) = <<1, 1, 0>>

\* need_boundary has returned after a failure of the chaining, all its reads
\* inside bedges
ChainingFailed ==
    /\ Idle
    /\ call.op = "need_boundary"
    /\ call.out = "computed"
    /\ diag
    /\ ~oob

\* how often e occurs in the list b
Occurrences(b, e) == Cardinality({k \in 1..Len(b) : b[k] = e})

\* C17: when greedy chaining in need_boundary fails at some position (no later
\* edge starts at the current edge's end vertex and that end vertex is not the
\* start vertex of edge 0), need_boundary raises no error, emits a diagnostic,
\* stops reordering, and returns a list with exactly the boundary edges
\* collected before reordering (the same multiset), the prefix chained up to
\* the failing position being left in place.
C17_ChainFailureBestEffort ==
    ChainingFailed =>
        /\ Len(bedges) = Len(bcollected)
        /\ \A e \in Range(bedges) \cup Range(bcollected) :
              Occurrences(bedges, e) = Occurrences(bcollected, e)
        /\ bidx < Len(bedges)
        /\ \A k \in 0..(bidx - 1) :
              \/ At(At(bedges, k), 1) = At(At(bedges, k + 1), 0)
              \/ At(At(bedges, k), 1) = At(At(bedges, 0), 0)
        /\ \A k \in (bidx + 1)..(Len(bedges) - 1) :
              At(At(bedges, k), 0) # At(At(bedges, bidx), 1)
        /\ At(At(bedges, bidx), 1) # At(At(bedges, 0), 0)

\* the chaining failed after it had reordered a part of the list
C17_Witness ==
    /\ ChainingFailed
    /\ bidx >= 1
    /\ bedges # bcollected

\* the faces other than i that hold the directed edge v2 -> v1 of edge j of
\* face i, v1 and v2 being the corners (j+1)%3 and (j+2)%3
OppositeFaces(i, j) ==
    {k \in FaceIds \ {i} :
        <<Corner(i, (j + 2) % 3), Corner(i, (j + 1) % 3)>> \in DirEdgesOf(k)}

\* every entry of the table is -1 exactly when no other face holds the edge
\* in the opposite sense, and is such a face otherwise
EntriesAreOpposite ==
    \A i \in FaceIds : \A j \in 0..2 :
        LET x == At(At(mFAcrossEdge, i), j)
        IN /\ x = -1 <=> OppositeFaces(i, j) = {}
           /\ x # -1 => x \in OppositeFaces(i, j)

\* C18 as stated: after need_across_edge, for every face i and local edge j
\* the entry mFAcrossEdge[i][j] is -1 if and only if no face other than i
\* contains the directed edge v2 -> v1; otherwise it is the index of such a
\* face, and that face is not i.
C18_EntryIffOpposite == AcrossDone => EntriesAreOpposite

\* C18 amended: the same, on a mesh whose faces have three distinct corners.
C18_EntryIffOppositeNonDegenerate == (AcrossDone /\ NonDegenerate) => EntriesAreOpposite

\* need_across_edge returned with a matched edge and a boundary edge on a mesh
\* of faces with distinct corners
C18_Witness ==
    /\ Idle
    /\ call = [op |-> "need_across_edge", arg |-> 0, out |-> "computed"]
    /\ NonDegenerate
    /\ \E i \in FaceIds : \E j \in 0..2 : At(At(mFAcrossEdge, i), j) # -1
    /\ \E i \in FaceIds : \E j \in 0..2 : At(At(mFAcrossEdge, i), j) = -1

\* the table the loop of need_across_edge leaves when its iterations run one
\* after the other in the order of i and j, from position k of that order on
RECURSIVE SequentialAcross(_, _)
SequentialAcross(k, tab) ==
    IF k > 3 * NumFaces THEN tab
    ELSE LET i == CornerSeq[k][1]
             j == CornerSeq[k][2]
             r == FindAcross(i, j)
         IN IF At(At(tab, i), j) # -1 \/ r.other = -1
            THEN SequentialAcross(k + 1, tab)
            ELSE SequentialAcross(k + 1,
                    SetAcross(SetAcross(tab, i, j, r.other), r.other, r.ind, i))

\* the table is the one of the sequential order
TableAsSequential ==
    mFAcrossEdge = SequentialAcross(1, [k \in 1..NumFaces |-> NoAcross])

\* C19 as stated: the across-edge table is the same for every order and every
\* interleaving of the per-face iterations of the parallel loop, for every
\* mesh, also one where an edge is shared by three or more faces.
C19_SameTableAnyMesh == AcrossDone => TableAsSequential

\* C19 amended: on a mesh in which no edge is shared by more than two faces
\* the across-edge table is the same for every order and every interleaving
\* of the per-face iterations of the parallel loop.
C19_SameTableOnManifold == (AcrossDone /\ AtMostTwoFacesPerEdge) => TableAsSequential

\* the parallel loop ended on three faces, two of them matched with each
\* other, with no edge in more than two faces
C19_Witness ==
    /\ Idle
    /\ call = [op |-> "need_across_edge", arg |-> 0, out |-> "computed"]
    /\ NumFaces = 3
    /\ AtMostTwoFacesPerEdge
    /\ \E i \in FaceIds : \E j \in 0..2 : At(At(mFAcrossEdge, i), j) # -1


\* ------------------------------------------------------------------ need_neighbors
\* a slip in the insertion: the linear scan is skipped
PushAlways(me, n) == Append(me, n)

\* if (std::find(me.begin(), me.end(), n) == me.end()) me.push_back(n)
PushUnique(me, n) == IF n \in Range(me) THEN me ELSE Append(me, n)

\* the loop over faces and corners, from position k of CornerSeq on
RECURSIVE NeighborsFrom(_, _)
NeighborsFrom(k, nb) ==
    IF k > Len(CornerSeq) THEN nb
    ELSE LET i == CornerSeq[k][1]
             j == CornerSeq[k][2]
             v == Corner(i, j)
             n1 == Corner(i, (j + 1) % 3)
             n2 == Corner(i, (j + 2) % 3)
             me == PushUnique(PushUnique(At(nb, v), n1), n2)
         IN NeighborsFrom(k + 1, [nb EXCEPT ![v + 1] = me])

\* mVNeighbors.resize(nv), then the loop
ComputeNeighbors == NeighborsFrom(1, [v \in 1..Len(mVertices) |-> <<>>])

\* need_neighbors: compute once, then cached
NeedNeighbors ==
    /\ Idle
    /\ mVNeighbors' = IF mVNeighbors # <<>> THEN mVNeighbors ELSE ComputeNeighbors
    /\ call' = [op |-> "need_neighbors", arg |-> 0,
                out |-> IF mVNeighbors # <<>> THEN "cached" ELSE "computed"]
    /\ UNCHANGED <<mFaces, pc, connVars, perVars, mFields, stream, mFaceNormals,
                   mPointNormals, pointAreas, cornerareas, fw, reg, wb>>

NextNeighbors == NeedNeighbors

SpecNeighbors == Init /\ [][NextNeighbors]_vars

\* C20
NeighborsDone == Idle /\ call.op = "need_neighbors"

\* some face has both u and v among its corners
SharesFace(u, v) ==
    \E i \in FaceIds : {u, v} \subseteq {Corner(i, 0), Corner(i, 1), Corner(i, 2)}

\* the list of every vertex v has no duplicates, holds u exactly when u # v
\* and a face has both, and the relation is symmetric
NeighborsAreFaceSharers ==
    /\ \A v \in VertexIds :
        /\ Cardinality(Range(At(mVNeighbors, v))) = Len(At(mVNeighbors, v))
        /\ \A u \in VertexIds :
               u \in Range(At(mVNeighbors, v)) <=> (u # v /\ SharesFace(u, v))
    /\ \A u, v \in VertexIds :
           u \in Range(At(mVNeighbors, v)) <=> v \in Range(At(mVNeighbors, u))

\* C20 as stated: after need_neighbors, on any mesh, every neighbor list is
\* duplicate-free and holds exactly the other vertices sharing a face with
\* its vertex, and the relation is symmetric.
C20_NeighborsOnAnyMesh == NeighborsDone => NeighborsAreFaceSharers

\* C20 (amended): after need_neighbors on a mesh whose faces each have three
\* distinct corners, every neighbor list is duplicate-free and holds exactly
\* the other vertices sharing a face with its vertex, and the relation is
\* symmetric.
C20_NeighborsOnNonDegenerate == (NeighborsDone /\ NonDegenerate) => NeighborsAreFaceSharers

\* two faces sharing an edge: a vertex with three neighbors, reached twice by
\* the insertion, next to a vertex with two
C20_Witness ==
    /\ NeighborsDone /\ call.out = "computed" /\ NonDegenerate /\ NumFaces = 2
    /\ \E v \in VertexIds : Len(At(mVNeighbors, v)) = 3
    /\ \E v \in VertexIds : Len(At(mVNeighbors, v)) = 2


\* ------------------------------------------------------------------ write_binary
\* faces of the fan around vertex 0 that write_binary is given
FanFaces == 257

\* sizeof(uint32_t)
index_size == 4

\* sizeof(float)
function_size == 4

\* {1,1,1}
dummy_dimensions == <<1, 1, 1>>

\* (uint32_t)-1 (the largest integer of the model checker stands for 2^32-1)
Uint32Max == 2147483647

\* the fan (0,1,2), (0,2,3), ... of n faces around vertex 0
Fan(n) == [k \in 1..n |-> <<0, k, k + 1>>]

\* field names are strings, held as their character codes: "f", "ab"
NameF == <<102>>
NameAB == <<97, 98>>

\* operator< of std::string: the first differing character decides, a proper
\* prefix comes first
LexLess(a, b) ==
    \E k \in 1..Len(b) :
        /\ k - 1 <= Len(a)
        /\ \A i \in 1..(k - 1) : a[i] = b[i]
        /\ (Len(a) = k - 1 \/ a[k] < b[k])

\* the keys of the map in the order mFields.begin() .. mFields.end() visits them
RECURSIVE SortNames(_)
SortNames(S) ==
    IF S = {} THEN <<>>
    ELSE LET m == CHOOSE x \in S : \A y \in S \ {x} : LexLess(x, y)
         IN <<m>> \o SortNames(S \ {m})

FieldOrder == SortNames(DOMAIN mFields)

\* counts[v]++ on a uint8_t
Inc8(c, v) == [c EXCEPT ![v + 1] = (@ + 1) % 256]

\* counts[v]-- on a uint8_t
Dec8(c, v) == [c EXCEPT ![v + 1] = (@ + 255) % 256]

\* first[v] = std::min(first[v], count)
MinFirst(first, v, count) ==
    [first EXCEPT ![v + 1] = IF count < @ THEN count ELSE @]

\* 'v', the index, the three position components, one scalar per field
VRecord(vert) ==
    <<"v", vert, At(mVertices, vert),
      [k \in 1..Len(FieldOrder) |-> At(mFields[FieldOrder[k]], vert)]>>

\* a slip in the first-occurrence test: every corner is written
VRecordIfAlways(count, first, vert) == <<VRecord(vert)>>

\* if (count == first[vert]) write the vertex
VRecordIf(count, first, vert) ==
    IF count = At(first, vert) THEN <<VRecord(vert)>> ELSE <<>>

\* a slip in the order of the edges
ERecordsReversed(i) ==
    << <<"e", Corner(i, 2), Corner(i, 0)>>,
       <<"e", Corner(i, 1), Corner(i, 2)>>,
       <<"e", Corner(i, 0), Corner(i, 1)>> >>

\* the three 'e' records of face i
ERecords(i) ==
    << <<"e", Corner(i, 0), Corner(i, 1)>>,
       <<"e", Corner(i, 1), Corner(i, 2)>>,
       <<"e", Corner(i, 2), Corner(i, 0)>> >>

\* if (counts[face[k]] == 0) write 'f' and the index
FRecordIf(counts, vert) ==
    IF At(counts, vert) = 0 THEN << <<"f", vert>> >> ELSE <<>>

Header == <<"header", index_size, function_size, dummy_dimensions>>

\* everything but the file and the locals of write_binary
writeFrame == <<mFaces, connVars, perVars, mVNeighbors, mFields, mFaceNormals,
                mPointNormals, pointAreas, cornerareas, fw, reg>>

\* write_binary is called: the file is opened with "wb", the header written,
\* counts and first allocated
WriteBinary ==
    /\ Idle
    /\ pc' = "wb_count"
    /\ stream' = <<Header>>
    /\ wb' = [counts |-> [v \in 1..Len(mVertices) |-> 0],
              first |-> [v \in 1..Len(mVertices) |-> Uint32Max],
              count |-> 0]
    /\ call' = [op |-> "write_binary", arg |-> 0, out |-> "running"]
    /\ UNCHANGED writeFrame

\* one pass of the counting loop
CountFace ==
    /\ pc = "wb_count"
    /\ wb.count < NumFaces
    /\ LET f0 == Corner(wb.count, 0)
           f1 == Corner(wb.count, 1)
           f2 == Corner(wb.count, 2)
       IN wb' = [counts |-> Inc8(Inc8(Inc8(wb.counts, f0), f1), f2),
                 first |-> MinFirst(MinFirst(MinFirst(wb.first, f0, wb.count),
                                             f1, wb.count), f2, wb.count),
                 count |-> wb.count + 1]
    /\ UNCHANGED <<pc, call, stream, writeFrame>>

\* the counting loop ends: count = 0
CountDone ==
    /\ pc = "wb_count"
    /\ wb.count >= NumFaces
    /\ pc' = "wb_write"
    /\ wb' = [wb EXCEPT !.count = 0]
    /\ UNCHANGED <<call, stream, writeFrame>>

\* one pass of the writing loop: the block of face count
WriteFace ==
    /\ pc = "wb_write"
    /\ wb.count < NumFaces
    /\ LET f0 == Corner(wb.count, 0)
           f1 == Corner(wb.count, 1)
           f2 == Corner(wb.count, 2)
           c0 == Dec8(wb.counts, f0)
           c1 == Dec8(c0, f1)
           c2 == Dec8(c1, f2)
       IN /\ stream' = stream \o VRecordIf(wb.count, wb.first, f0)
                              \o VRecordIf(wb.count, wb.first, f1)
                              \o VRecordIf(wb.count, wb.first, f2)
                              \o ERecords(wb.count)
                              \o FRecordIf(c0, f0) \o FRecordIf(c1, f1)
                              \o FRecordIf(c2, f2)
          /\ wb' = [wb EXCEPT !.counts = c2, !.count = wb.count + 1]
    /\ UNCHANGED <<pc, call, writeFrame>>

\* the writing loop ends: the file is closed, true is returned
WriteReturn ==
    /\ pc = "wb_write"
    /\ wb.count >= NumFaces
    /\ pc' = "idle"
    /\ wb' = <<>>
    /\ call' = [call EXCEPT !.out = "true"]
    /\ UNCHANGED <<stream, writeFrame>>

\* the meshes handed to the writer: the small ones and the fan
WriteMeshes == Meshes \cup {Fan(FanFaces)}

\* the fields a written mesh carries: none, "f" (10, 20, 30, ...), or "f" and "ab"
FieldMaps(nv) ==
    {<<>>,
     [n \in {NameF} |-> [v \in 1..nv |-> 10 * v]],
     [n \in {NameF, NameAB} |-> [v \in 1..nv |-> IF n = NameF THEN 10 * v ELSE v + 4]]}

\* a mesh with its vertex positions and fields
InitWrite ==
    /\ mFaces \in WriteMeshes
    /\ mVertices = [k \in 1..(IF Len(mFaces) > MaxFaces + 1 THEN Len(mFaces) + 2 ELSE NumVerts)
                       |-> <<k - 1, k, 0>>]
    /\ mVAdjFaces = <<>>
    /\ mFAcrossEdge = <<>>
    /\ bedges = <<>>
    /\ InitControl
    /\ mDim = 3
    /\ dt = <<>>
    /\ InitBox
    /\ InitPeriodicLists
    /\ mVNeighbors = <<>>
    /\ mFields \in FieldMaps(Len(mVertices))
    /\ stream = <<>>
    /\ mFaceNormals = <<>>
    /\ mPointNormals = <<>>
    /\ pointAreas = <<>>
    /\ cornerareas = <<>>
    /\ fw = <<>>
    /\ reg = <<>>
    /\ wb = <<>>

NextWrite ==
    \/ WriteBinary
    \/ CountFace
    \/ CountDone
    \/ WriteFace
    \/ WriteReturn

SpecWrite == InitWrite /\ [][NextWrite]_vars


\* write_binary has returned
WriteDone == Idle /\ call.op = "write_binary" /\ call.out = "true"

\* the 'e' records before position p: three per finished block
EBefore(p) == Cardinality({q \in 1..(p - 1) : stream[q][1] = "e"})

VPositions(v) == {p \in 1..Len(stream) : stream[p][1] = "v" /\ stream[p][2] = v}

FPositions(v) == {p \in 1..Len(stream) : stream[p][1] = "f" /\ stream[p][2] = v}

\* the 'e' and 'f' records naming vertex v
NamingPositions(v) ==
    {p \in 1..Len(stream) :
        \/ stream[p][1] = "e" /\ (stream[p][2] = v \/ stream[p][3] = v)
        \/ stream[p][1] = "f" /\ stream[p][2] = v}

\* the faces referencing vertex v
FacesOf(v) == {i \in FaceIds : v \in {Corner(i, 0), Corner(i, 1), Corner(i, 2)}}

FirstFace(v) == CHOOSE i \in FacesOf(v) : \A k \in FacesOf(v) : i <= k

LastFace(v) == CHOOSE i \in FacesOf(v) : \A k \in FacesOf(v) : i >= k

\* the scalars of a 'v' record are those of the fields, the one of a field
\* standing after those of all fields with a smaller name
ScalarsByName(scalars, v) ==
    /\ Len(scalars) = Cardinality(DOMAIN mFields)
    /\ \A name \in DOMAIN mFields :
           scalars[1 + Cardinality({m \in DOMAIN mFields : LexLess(m, name)})]
               = At(mFields[name], v)

\* one 'v' record per referenced vertex, in the block of the first face
\* referencing it, before every 'e' and 'f' record naming it, carrying index,
\* position and scalars; none for an unreferenced vertex
OneVRecordPerVertex ==
    \A v \in 0..(Len(mVertices) - 1) :
        IF FacesOf(v) = {} THEN VPositions(v) = {}
        ELSE /\ Cardinality(VPositions(v)) = 1
             /\ \A p \in VPositions(v) :
                    /\ EBefore(p) = 3 * FirstFace(v)
                    /\ \A q \in NamingPositions(v) : p < q
                    /\ Len(stream[p]) = 4
                    /\ stream[p][3] = At(mVertices, v)
                    /\ ScalarsByName(stream[p][4], v)

C12_HeaderAndBlocks ==
    WriteDone =>
        /\ stream[1] = <<"header", 4, 4, <<1, 1, 1>>>>
        /\ \A p \in 2..Len(stream) : stream[p][1] \in {"v", "e", "f"}
        /\ EBefore(Len(stream) + 1) = 3 * NumFaces
        /\ \A p \in 2..Len(stream) :
               /\ stream[p][1] = "e" =>
                      LET k == EBefore(p)
                      IN /\ stream[p] = <<"e", Corner(k \div 3, k % 3),
                                          Corner(k \div 3, ((k % 3) + 1) % 3)>>
                         /\ k % 3 # 2 => stream[p + 1][1] = "e"
               /\ stream[p][1] = "v" => p < Len(stream) /\ stream[p + 1][1] \in {"v", "e"}
               /\ stream[p][1] = "f" => stream[p - 1][1] \in {"e", "f"}
        /\ mFaces = << <<0, 1, 2>> >> =>
               [p \in 1..(Len(stream) - 1) |-> SubSeq(stream[p + 1], 1, 2)]
                   = << <<"v", 0>>, <<"v", 1>>, <<"v", 2>>, <<"e", 0>>, <<"e", 1>>,
                        <<"e", 2>>, <<"f", 0>>, <<"f", 1>>, <<"f", 2>> >>

\* three blocks, with fields, an 'f' record of one block directly followed by
\* a 'v' record of the next
C12_Witness ==
    /\ WriteDone /\ NumFaces = 3 /\ DOMAIN mFields = {NameF}
    /\ \E p \in 2..(Len(stream) - 1) : stream[p][1] = "f" /\ stream[p + 1][1] = "v"

\* C13: for every vertex with at least one incident face corner, whatever
\* their number (more than 255 included), write_binary emits exactly one 'f'
\* record, in the block of the last face containing the vertex.
C13_OneFRecordInLastBlock ==
    WriteDone =>
        \A v \in 0..(Len(mVertices) - 1) :
            FacesOf(v) # {} =>
                /\ Cardinality(FPositions(v)) = 1
                /\ \A p \in FPositions(v) : EBefore(p) = 3 * (LastFace(v) + 1)


\* ------------------------------------------------------------------ geometry
\* largest number of faces of the meshes whose normals and areas are computed
MaxGeomFaces == 2

Abs(x) == IF x < 0 THEN -x ELSE x

RECURSIVE Gcd(_, _)
Gcd(a, b) == IF b = 0 THEN a ELSE Gcd(b, a % b)

\* A TypeFunction value is held exactly, as a fraction <<numerator,
\* denominator>> in lowest terms with a positive denominator (the rounding of
\* float is left out); <<0, 0>> is the result of a division by zero, which is
\* not a finite number and stays so in every further operation.
NaN == <<0, 0>>

Fraction(n, d) ==
    IF d = 0 THEN NaN
    ELSE LET g == Gcd(Abs(n), Abs(d))
             sg == IF d < 0 THEN -1 ELSE 1
         IN <<(sg * n) \div g, (sg * d) \div g>>

QAdd(a, b) == IF a = NaN \/ b = NaN THEN NaN
              ELSE Fraction(a[1] * b[2] + b[1] * a[2], a[2] * b[2])

QSub(a, b) == IF a = NaN \/ b = NaN THEN NaN
              ELSE Fraction(a[1] * b[2] - b[1] * a[2], a[2] * b[2])

QMul(a, b) == IF a = NaN \/ b = NaN THEN NaN ELSE Fraction(a[1] * b[1], a[2] * b[2])

QDiv(a, b) == IF a = NaN \/ b = NaN THEN NaN ELSE Fraction(a[1] * b[2], a[2] * b[1])

\* operators of the vector type, on integer coordinates
VSub(p, q) == <<p[1] - q[1], p[2] - q[2], p[3] - q[3]>>

CROSS(a, b) == <<a[2] * b[3] - a[3] * b[2], a[3] * b[1] - a[1] * b[3],
                 a[1] * b[2] - a[2] * b[1]>>

DOT(a, b) == a[1] * b[1] + a[2] * b[2] + a[3] * b[3]

len2(a) == DOT(a, a)

\* len: the square root of len2 (exact for the vectors of the model, which
\* are parallel to an axis)
len(a) == CHOOSE r \in 0..len2(a) : r * r = len2(a)

\* vertex positions: four points of the plane z = 0.  Triangle (0,1,2) is
\* acute in the first list, obtuse at vertex 2 in the second (where vertex 3
\* coincides with vertex 2), right-angled at vertex 0 in the third.
GeomVertexLists ==
    { << <<0, 0, 0>>, <<2, 0, 0>>, <<1, 2, 0>>, <<3, 2, 0>> >>,
      << <<0, 0, 0>>, <<4, 0, 0>>, <<1, 1, 0>>, <<1, 1, 0>> >>,
      << <<0, 0, 0>>, <<2, 0, 0>>, <<0, 2, 0>>, <<2, 2, 0>> >> }

\* the faces of these meshes: triangle (0,1,2) from each of its corners, its
\* neighbors across two edges, and a face repeating an index
GeomFaceSet ==
    {<<0, 1, 2>>, <<1, 2, 0>>, <<2, 0, 1>>, <<1, 3, 2>>, <<0, 2, 3>>, <<0, 0, 1>>}

RECURSIVE GeomMeshes(_)
GeomMeshes(n) ==
    IF n = 0 THEN {<<>>}
    ELSE LET shorter == GeomMeshes(n - 1)
         IN shorter \cup {Append(t, f) : t \in {u \in shorter : Len(u) = n - 1},
                                         f \in GeomFaceSet}

\* a mesh with positions, nothing derived yet
InitGeom ==
    /\ mFaces \in GeomMeshes(MaxGeomFaces)
    /\ mVertices \in GeomVertexLists
    /\ mVAdjFaces = <<>>
    /\ mFAcrossEdge = <<>>
    /\ bedges = <<>>
    /\ InitControl
    /\ mDim = 3
    /\ dt = <<>>
    /\ InitBox
    /\ InitPeriodicLists
    /\ InitFields

\* position of corner k of face i
Pos(i, k) == At(mVertices, Corner(i, k))

\* every iteration of the per-face loop has finished
LoopJoined(last) == \A i \in FaceIds : At(fw, i) = last

\* ------------------------------------------------------------------ need_normals
\* position of an iteration past its last store
NormalsEnd == 7

\* a = p0-p1, b = p1-p2, c = p2-p0
EdgeA(i) == VSub(Pos(i, 0), Pos(i, 1))

EdgeB(i) == VSub(Pos(i, 1), Pos(i, 2))

EdgeC(i) == VSub(Pos(i, 2), Pos(i, 0))

\* if (!l2a || !l2b || !l2c) continue
ZeroLengthEdge(i) == len2(EdgeA(i)) = 0 \/ len2(EdgeB(i)) = 0 \/ len2(EdgeC(i)) = 0

\* the term added for corner k: (a CROSS b) * (1.0 / (l2a*l2c)), 1.0 / (l2b*l2a),
\* 1.0 / (l2c*l2b)
WeightedNormal(i, k) ==
    LET n == CROSS(EdgeA(i), EdgeB(i))
        w == IF k = 0 THEN len2(EdgeA(i)) * len2(EdgeC(i))
             ELSE IF k = 1 THEN len2(EdgeB(i)) * len2(EdgeA(i))
             ELSE len2(EdgeC(i)) * len2(EdgeB(i))
    IN <<Fraction(n[1], w), Fraction(n[2], w), Fraction(n[3], w)>>

VAdd(u, v) == <<QAdd(u[1], v[1]), QAdd(u[2], v[2]), QAdd(u[3], v[3])>>

ZeroVector == <<Fraction(0, 1), Fraction(0, 1), Fraction(0, 1)>>

\* normalize (TriMesh.hpp): unit length, a zero vector stays zero.  The
\* length is the root of the sum of the squares; for the vectors of the model,
\* parallel to an axis, it is the magnitude of a component.
normalize(v) ==
    IF v = ZeroVector THEN v
    ELSE LET l == CHOOSE r \in {<<Abs(v[k][1]), v[k][2]>> : k \in 1..3} :
                      QMul(r, r) = QAdd(QAdd(QMul(v[1], v[1]), QMul(v[2], v[2])),
                                        QMul(v[3], v[3]))
         IN <<QDiv(v[1], l), QDiv(v[2], l), QDiv(v[3], l)>>

normalsFrame == <<mFaces, call, connVars, perVars, mVNeighbors, mFields, stream,
                  pointAreas, cornerareas, wb>>

\* need_normals is called: cached, or the arrays are cleared and resized and
\* the parallel loop starts
NeedNormals ==
    /\ Idle
    /\ IF Len(mPointNormals) = Len(mVertices)
       THEN /\ call' = [op |-> "need_normals", arg |-> 0, out |-> "cached"]
            /\ UNCHANGED <<pc, mPointNormals, mFaceNormals, fw, reg>>
       ELSE /\ call' = [op |-> "need_normals", arg |-> 0, out |-> "running"]
            /\ pc' = "normals"
            /\ mPointNormals' = [v \in 1..Len(mVertices) |-> ZeroVector]
            /\ mFaceNormals' = [i \in 1..NumFaces |-> <<0, 0, 0>>]
            /\ fw' = [i \in 1..NumFaces |-> 0]
            /\ reg' = [i \in 1..NumFaces |-> ZeroVector]
    /\ UNCHANGED <<mFaces, connVars, perVars, mVNeighbors, mFields, stream,
                   pointAreas, cornerareas, wb>>

\* iteration i up to its first +=: the face is skipped or its normal stored
NormalsFace(i) ==
    /\ pc = "normals"
    /\ At(fw, i) = 0
    /\ IF ZeroLengthEdge(i)
       THEN /\ fw' = [fw EXCEPT ![i + 1] = NormalsEnd]
            /\ UNCHANGED mFaceNormals
       ELSE /\ fw' = [fw EXCEPT ![i + 1] = 1]
            /\ mFaceNormals' = [mFaceNormals EXCEPT ![i + 1] = CROSS(EdgeA(i), EdgeB(i))]
    /\ UNCHANGED <<pc, mPointNormals, reg, normalsFrame>>

\* mPointNormals[f[k]] += ... is not atomic: first the accumulator is read
NormalsLoad(i) ==
    /\ pc = "normals"
    /\ At(fw, i) \in {1, 3, 5}
    /\ reg' = [reg EXCEPT ![i + 1] = At(mPointNormals, Corner(i, At(fw, i) \div 2))]
    /\ fw' = [fw EXCEPT ![i + 1] = @ + 1]
    /\ UNCHANGED <<pc, mPointNormals, mFaceNormals, normalsFrame>>

\* then the sum is written back
NormalsStore(i) ==
    /\ pc = "normals"
    /\ At(fw, i) \in {2, 4, 6}
    /\ LET k == (At(fw, i) \div 2) - 1
       IN mPointNormals' = [mPointNormals EXCEPT ![Corner(i, k) + 1] =
                                VAdd(At(reg, i), WeightedNormal(i, k))]
    /\ fw' = [fw EXCEPT ![i + 1] = @ + 1]
    /\ UNCHANGED <<pc, mFaceNormals, reg, normalsFrame>>

\* the parallel loop is over
NormalsJoin ==
    /\ pc = "normals"
    /\ LoopJoined(NormalsEnd)
    /\ pc' = "normalize"
    /\ UNCHANGED <<mPointNormals, mFaceNormals, fw, reg, normalsFrame>>

\* the loop over the vertices: normalize(mPointNormals[i]); return
NormalsReturn ==
    /\ pc = "normalize"
    /\ mPointNormals' = [v \in 1..Len(mPointNormals) |-> normalize(mPointNormals[v])]
    /\ pc' = "idle"
    /\ call' = [call EXCEPT !.out = "computed"]
    /\ UNCHANGED <<mFaces, connVars, perVars, mVNeighbors, mFields, stream,
                   pointAreas, cornerareas, wb, mFaceNormals, fw, reg>>

NextNormals ==
    \/ NeedNormals
    \/ \E i \in FaceIds : NormalsFace(i)
    \/ \E i \in FaceIds : NormalsLoad(i)
    \/ \E i \in FaceIds : NormalsStore(i)
    \/ NormalsJoin
    \/ NormalsReturn

SpecNormals == InitGeom /\ [][NextNormals]_vars

\* the sum of the terms of the corners CornerSeq[k..] that are vertex v in a
\* face without a zero-length edge
RECURSIVE NormalSum(_, _)
NormalSum(v, k) ==
    IF k > Len(CornerSeq) THEN ZeroVector
    ELSE LET i == CornerSeq[k][1]
             j == CornerSeq[k][2]
         IN IF Corner(i, j) = v /\ ~ZeroLengthEdge(i)
            THEN VAdd(WeightedNormal(i, j), NormalSum(v, k + 1))
            ELSE NormalSum(v, k + 1)

\* C14: when the per-face loop of need_normals has run, under any
\* interleaving of its iterations, the accumulated normal of every vertex,
\* before normalization, is the sum of the weighted normals of its incident
\* faces without a zero-length edge: no contribution is lost.
C14_NoContributionLost ==
    pc = "normalize" =>
        \A v \in 0..(Len(mVertices) - 1) : At(mPointNormals, v) = NormalSum(v, 1)


\* ------------------------------------------------------------------ need_pointareas
\* position of an iteration past its last addition
AreasEnd == 4

\* the key "point_areas", as character codes
NamePointAreas == <<112, 111, 105, 110, 116, 95, 97, 114, 101, 97, 115>>

\* e[0], e[1], e[2] of face i
Edge(i, k) == VSub(Pos(i, (k + 2) % 3), Pos(i, (k + 1) % 3))

\* area = 0.5f * len(e[0] CROSS e[1])
FaceArea(i) == Fraction(len(CROSS(Edge(i, 0), Edge(i, 1))), 2)

\* ew[k] = l2[k] * (l2[k+1] + l2[k+2] - l2[k])
EdgeWeight(i, k) ==
    len2(Edge(i, k)) * (len2(Edge(i, (k + 1) % 3)) + len2(Edge(i, (k + 2) % 3))
                        - len2(Edge(i, k)))

\* -0.25f * l2 * area / dot
ObtuseCorner(l2, area, dot) == QDiv(QMul(Fraction(-l2, 4), area), Fraction(dot, 1))

\* a slip in the scale: the factor 0.5f is missing
EwScaleNoHalf(area, sum) == QDiv(area, Fraction(sum, 1))

\* ewscale = 0.5f * area / (ew[0] + ew[1] + ew[2])
EwScale(area, sum) == QDiv(QMul(Fraction(1, 2), area), Fraction(sum, 1))

\* cornerareas[i] as the four branches assign it
CornerAreas(i) ==
    LET area == FaceArea(i)
        l2 == [k \in 0..2 |-> len2(Edge(i, k))]
        ew == [k \in 0..2 |-> EdgeWeight(i, k)]
        e == [k \in 0..2 |-> Edge(i, k)]
    IN IF ew[0] <= 0
       THEN LET c1 == ObtuseCorner(l2[2], area, DOT(e[0], e[2]))
                c2 == ObtuseCorner(l2[1], area, DOT(e[0], e[1]))
            IN <<QSub(QSub(area, c1), c2), c1, c2>>
       ELSE IF ew[1] <= 0
       THEN LET c2 == ObtuseCorner(l2[0], area, DOT(e[1], e[0]))
                c0 == ObtuseCorner(l2[2], area, DOT(e[1], e[2]))
            IN <<c0, QSub(QSub(area, c2), c0), c2>>
       ELSE IF ew[2] <= 0
       THEN LET c0 == ObtuseCorner(l2[1], area, DOT(e[2], e[1]))
                c1 == ObtuseCorner(l2[0], area, DOT(e[2], e[0]))
            IN <<c0, c1, QSub(QSub(area, c0), c1)>>
       ELSE LET ewscale == EwScale(area, ew[0] + ew[1] + ew[2])
            IN [j \in 1..3 |-> QMul(ewscale, Fraction(ew[j % 3] + ew[(j + 1) % 3], 1))]

areasFrame == <<mFaces, call, connVars, perVars, mVNeighbors, stream, mFaceNormals,
                mPointNormals, reg, wb>>

\* need_pointareas is called: cached, or the arrays are allocated and the
\* parallel loop starts
NeedPointareas ==
    /\ Idle
    /\ IF NamePointAreas \in DOMAIN mFields
       THEN /\ call' = [op |-> "need_pointareas", arg |-> 0, out |-> "cached"]
            /\ UNCHANGED <<pc, pointAreas, cornerareas, fw>>
       ELSE /\ call' = [op |-> "need_pointareas", arg |-> 0, out |-> "running"]
            /\ pc' = "areas"
            /\ pointAreas' = [v \in 1..Len(mVertices) |-> Fraction(0, 1)]
            /\ cornerareas' = [i \in 1..NumFaces |-> ZeroVector]
            /\ fw' = [i \in 1..NumFaces |-> 0]
    /\ UNCHANGED <<mFaces, connVars, perVars, mVNeighbors, mFields, stream,
                   mFaceNormals, mPointNormals, reg, wb>>

\* iteration i up to its first addition: the corner areas of the face
AreasFace(i) ==
    /\ pc = "areas"
    /\ At(fw, i) = 0
    /\ cornerareas' = [cornerareas EXCEPT ![i + 1] = CornerAreas(i)]
    /\ fw' = [fw EXCEPT ![i + 1] = 1]
    /\ UNCHANGED <<pc, pointAreas, mFields, areasFrame>>

\* a slip: the addition works on the value the accumulator had when the loop
\* started
AreasAddStale(i) ==
    /\ pc = "areas"
    /\ At(fw, i) \in 1..3
    /\ LET k == At(fw, i) - 1
       IN pointAreas' = [pointAreas EXCEPT ![Corner(i, k) + 1] =
                             QAdd(Fraction(0, 1), At(At(cornerareas, i), k))]
    /\ fw' = [fw EXCEPT ![i + 1] = @ + 1]
    /\ UNCHANGED <<pc, cornerareas, mFields, areasFrame>>

\* #pragma omp atomic: pointAreas[mFaces[i][k]] += cornerareas[i][k]
AreasAdd(i) ==
    /\ pc = "areas"
    /\ At(fw, i) \in 1..3
    /\ LET k == At(fw, i) - 1
       IN pointAreas' = [pointAreas EXCEPT ![Corner(i, k) + 1] =
                             QAdd(@, At(At(cornerareas, i), k))]
    /\ fw' = [fw EXCEPT ![i + 1] = @ + 1]
    /\ UNCHANGED <<pc, cornerareas, mFields, areasFrame>>

\* the parallel loop is over: mFields["point_areas"] = pointAreas; return
AreasReturn ==
    /\ pc = "areas"
    /\ LoopJoined(AreasEnd)
    /\ mFields' = [n \in DOMAIN mFields \cup {NamePointAreas} |->
                      IF n = NamePointAreas THEN pointAreas ELSE mFields[n]]
    /\ pc' = "idle"
    /\ call' = [call EXCEPT !.out = "computed"]
    /\ UNCHANGED <<mFaces, connVars, perVars, mVNeighbors, stream, mFaceNormals,
                   mPointNormals, reg, wb, pointAreas, cornerareas, fw>>

NextAreas ==
    \/ NeedPointareas
    \/ \E i \in FaceIds : AreasFace(i)
    \/ \E i \in FaceIds : AreasAdd(i)
    \/ AreasReturn

SpecAreas == InitGeom /\ [][NextAreas]_vars

\* need_pointareas has computed the field
AreasDone == Idle /\ call.op = "need_pointareas" /\ call.out = "computed"

\* the sum of the corner areas of the corners CornerSeq[k..] that are vertex v
RECURSIVE CornerAreaSum(_, _)
CornerAreaSum(v, k) ==
    IF k > Len(CornerSeq) THEN Fraction(0, 1)
    ELSE LET i == CornerSeq[k][1]
             j == CornerSeq[k][2]
         IN IF Corner(i, j) = v
            THEN QAdd(At(CornerAreas(i), j), CornerAreaSum(v, k + 1))
            ELSE CornerAreaSum(v, k + 1)

\* C15: after need_pointareas, under any interleaving and order of the
\* iterations of its per-face loop, the value of field point_areas at every
\* vertex is the sum, over its incident face corners, of the corner's area:
\* nothing is lost or counted twice.
C15_AreasAreCornerSums ==
    AreasDone =>
        \A v \in 0..(Len(mVertices) - 1) :
            At(mFields[NamePointAreas], v) = CornerAreaSum(v, 1)

\* two faces with finite areas sharing two vertices, one face obtuse or
\* right-angled
C15_Witness ==
    /\ AreasDone /\ NumFaces = 2
    /\ Cardinality(FacesOf(1)) = 2 /\ Cardinality(FacesOf(2)) = 2
    /\ \A v \in 0..3 : At(mFields[NamePointAreas], v) # NaN
    /\ At(mFields[NamePointAreas], 1)[1] > 0
    /\ \E i \in FaceIds : \E k \in 0..2 : EdgeWeight(i, k) <= 0

\* a face of non-zero area
HasArea(i) == FaceArea(i)[1] > 0

RECURSIVE SumOver(_, _)
SumOver(q, k) == IF k > Len(q) THEN Fraction(0, 1) ELSE QAdd(q[k], SumOver(q, k + 1))

\* C16: for every non-degenerate face processed by need_pointareas the three
\* corner areas sum to the face area and none is negative, in the acute and
\* in the obtuse branches; hence (all faces being non-degenerate) the point
\* areas of all vertices sum to the areas of all faces.
C16_CornerAreasPartitionFace ==
    AreasDone =>
        /\ \A i \in FaceIds :
               HasArea(i) =>
                   /\ SumOver(At(cornerareas, i), 1) = FaceArea(i)
                   /\ \A k \in 0..2 : At(At(cornerareas, i), k) # NaN
                                      /\ At(At(cornerareas, i), k)[1] >= 0
        /\ (\A i \in FaceIds : HasArea(i)) =>
               SumOver(mFields[NamePointAreas], 1)
                   = SumOver([i \in 1..NumFaces |-> FaceArea(i - 1)], 1)

\* an acute face next to an obtuse or right-angled one
C16_Witness ==
    /\ AreasDone /\ NumFaces = 2 /\ \A i \in FaceIds : HasArea(i)
    /\ \E i \in FaceIds : \A k \in 0..2 : EdgeWeight(i, k) > 0
    /\ \E i \in FaceIds : \E k \in 0..2 : EdgeWeight(i, k) <= 0


\* ------------------------------------------------------------------ caching
\* the builders of the derived structures
Builders == {"need_neighbors", "need_adjacentfaces", "need_across_edge",
             "need_boundary", "need_normals", "need_pointareas"}

\* the last thing that happened is that builder op returned
Returned(op) == Idle /\ call.op = op /\ call.out \in {"computed", "cached"}

\* builder op, having returned, is called again
CalledAgain(op) == Returned(op) /\ call'.op = op

\* the call finds the structure cached and changes no derived structure
ServedFromCache ==
    /\ call'.out = "cached"
    /\ UNCHANGED <<mVAdjFaces, mFAcrossEdge, bedges, mVNeighbors, mPointNormals,
                   mFaceNormals, mFields>>

\* C21: a derived structure is computed by the first call of its builder and
\* a later call of that builder recomputes nothing and leaves every derived
\* structure as it is, also when what was computed is empty; and when
\* need_boundary has returned, the across-edge and adjacent-face tables are
\* computed as well.
C21_LaterCallsServedFromCache ==
    /\ [](Returned("need_boundary") =>
              Len(mFAcrossEdge) = NumFaces /\ Len(mVAdjFaces) = Len(mVertices))
    /\ [][\A op \in Builders : CalledAgain(op) => ServedFromCache]_vars


\* ------------------------------------------------------------------ set_dimensionality
\* largest value passed to set_dimensionality
MaxDimArg == 259

\* the parameter is a uint8_t: the value passed arrives modulo 256
Uint8(d) == d % 256

\* set_dimensionality(d): mDim = _ comes first, then the test that throws
\* std::invalid_argument
SetDimensionality(d) ==
    /\ Idle
    /\ mDim' = Uint8(d)
    /\ call' = [op |-> "set_dimensionality", arg |-> d,
                out |-> IF Uint8(d) # 2 /\ Uint8(d) # 3 THEN "invalid_argument"
                        ELSE "true"]
    /\ UNCHANGED <<mFaces, pc, connVars, fieldVars, mVertices, mBox0, mBox1,
                   bbox_valid, dlVars>>

NextDim == \E d \in 0..MaxDimArg : SetDimensionality(d)

SpecDim == InitBoxSpec /\ [][NextDim]_vars

\* C22: in every state reached by set_dimensionality calls from a mesh of
\* dimensionality 2 or 3 the stored dimensionality is 2 or 3: a call with any
\* other value fails with an invalid-argument condition and leaves the stored
\* dimensionality as it was.
C22_DimensionalityStaysValid ==
    /\ [](mDim \in {2, 3})
    /\ [][\A d \in (0..MaxDimArg) \ {2, 3} :
              (call'.op = "set_dimensionality" /\ call'.arg = d /\ SetDimensionality(d))
                  => (call'.out = "invalid_argument" /\ mDim' = mDim)]_vars


\* ------------------------------------------------------------------ repeated reconstruction
\* the four lists a run of delaunay() leaves behind
RunLists == <<mFaces, mPeriodicFaces, mTrimmedFaces, mDuplicateVerts_OrigIds>>

\* the lists after the face loop has gone over the faces k.. of the
\* triangulation d, from the lists in acc and the handles in dh
RECURSIVE LoopLists(_, _, _, _)
LoopLists(d, k, acc, dh) ==
    IF k > Len(d) THEN acc
    ELSE LET f == d[k]
             n == NumOrigVerts(f)
             r == Unwrap(0, f, FaceInfos(f), acc[4], dh)
         IN IF n = 0 THEN LoopLists(d, k + 1, acc, dh)
            ELSE IF IsInside(n)
            THEN LoopLists(d, k + 1, [acc EXCEPT ![1] = Append(@, FaceInfos(f))], dh)
            ELSE LoopLists(d, k + 1,
                           <<acc[1], Append(acc[2], FaceInfos(f)),
                             Append(acc[3], r.face), r.recs>>, r.dh)

\* the lists one run over the triangulation d leaves in a fresh object
FreshRun(d) == LoopLists(d, 1, <<<<>>, <<>>, <<>>, <<>>>>, {})

\* the n-th run has returned, and it went over the triangulation d
RunDone(n, d) == DelaunayDone /\ runs = n /\ dt = d

\* C23: running delaunay() a second time on the same mesh object with the
\* same triangulation leaves mFaces, mPeriodicFaces, mTrimmedFaces and
\* mDuplicateVerts_OrigIds equal to their contents after the first run, so
\* that after any number of runs every duplicate key appears at most once
\* and every kept face indexes below original_count + duplicate_count.
C23_SecondRunLeavesListsEqual ==
    /\ \A d \in DtOutputs(MaxDtFaces) :
          []((RunDone(1, d) /\ RunLists = FreshRun(d))
                 => [](RunDone(2, d) => RunLists = FreshRun(d)))
    /\ [](DelaunayDone => (KeysUnique /\ KeptIndicesInRange))

====
